---- MODULE Spec2Model ----
(***************************************************************************)
(* PDUFA calendar agent: ticker resolution (adapters/fdt_google_ics.py)   *)
(* and reconciliation of a fetched batch into the two persisted CSV       *)
(* tables (main.py).                                                       *)
(*                                                                         *)
(* Cell values of the CSV tables are strings.  Dates are the strings the   *)
(* adapter writes (str(date)) and "" ; tickers and summaries of the        *)
(* reconcile part are opaque strings ordered by Collation (code point      *)
(* order, which is how pandas sorts an object column of str).              *)
(***************************************************************************)
EXTENDS Integers, Sequences, FiniteSets

VARIABLES
    pc,            \* position: in main "start", "fetched", "written";
                   \* in fetch_all "fetch_all", "events_to_df", "returned"
    MASTER_CSV,    \* [exists, rows]: data/pdufa_master.csv as written
    BLANK_CSV,     \* [exists, rows]: data/blank.csv as written
    df_all,        \* main's local: the batch fetch_all returned
    blank_written, \* this run of main called to_csv(BLANK_CSV)
    frames,        \* fetch_all: the rows of the frames appended so far
    rows,          \* events_to_df: the rows of the calendar being walked
    cur,           \* the last step of fetch_all: what it was given and did
    fetched,       \* fetch_all: the frame df it returns
    min_date,      \* fetch_all: its min_date argument
    max_date       \* fetch_all: its max_date argument

main_vars == <<MASTER_CSV, BLANK_CSV, df_all, blank_written>>

fetch_vars == <<frames, rows, cur, fetched, min_date, max_date>>

vars == <<pc, main_vars, fetch_vars>>

-----------------------------------------------------------------------------
(* Bounds of the model *)

MaxBatch == 2        \* records in one fetched batch
MaxRows == 3         \* rows of the master table
MaxBlankRows == 2    \* rows of the overflow table
MaxFetched == 2      \* VEVENTs one call of fetch_all walks
MaxLen == 6          \* characters of a summary whose ticker is extracted

-----------------------------------------------------------------------------
(* Strings *)

\* Every cell string of the reconcile part, in code point order.
Collation ==
    <<"", "2026-01-01", "2026-02-01", "9999-12-30", "9999-12-31",
      "AAA", "BBB", "N/A", "NULL", "s1">>

StrRank(s) == CHOOSE i \in 1..Len(Collation) : Collation[i] = s

StrLess(a, b) == StrRank(a) < StrRank(b)

\* pandas.read_csv default na_values that the program's fields can spell:
\* such a cell is parsed as NaN whatever dtype is asked for.
NA_VALUES == {"", "N/A", "NULL"}

-----------------------------------------------------------------------------
(* main.py: dates *)

\* pd.Timestamp.max, in days since 2026-01-01 (2262-04-11).
Timestamp_max == 86300

NaT == [nat |-> TRUE, err |-> FALSE, t |-> 0]

Timestamp(n) == [nat |-> FALSE, err |-> FALSE, t |-> n]

\* pd.to_datetime on one string: "" is NaT, a date out of the ns range
\* (year 9999) raises OutOfBoundsDatetime.
to_datetime(x) ==
    CASE x = "" -> NaT
      [] x = "2026-01-01" -> Timestamp(0)
      [] x = "2026-02-01" -> Timestamp(31)
      [] x = "2026-03-01" -> Timestamp(59)
      [] OTHER -> [nat |-> FALSE, err |-> TRUE, t |-> 0]

\* _date_key with the fallback of an unparsable date at the other end
_date_key_min(x) ==
    IF to_datetime(x).err THEN Timestamp(0 - 1) ELSE to_datetime(x)

_date_key(x) ==
    IF to_datetime(x).err THEN Timestamp(Timestamp_max) ELSE to_datetime(x)

\* sort_values(["__sort", by]): ascending, NaT last (na_position="last"),
\* ties of the first key decided by the column `by`.
RowLess(a, b, by) ==
    LET ka == _date_key(a.pdufa_date)
        kb == _date_key(b.pdufa_date)
    IN  IF ka.nat # kb.nat THEN kb.nat
        ELSE IF (~ka.nat) /\ ka.t # kb.t THEN ka.t < kb.t
        ELSE StrLess(a[by], b[by])

RECURSIVE sort_values(_, _)
\* A stable sort: a row goes after every row that is not greater.
sort_values(df, by) ==
    IF df = <<>> THEN <<>>
    ELSE LET n == Len(df)
             head == sort_values(SubSeq(df, 1, n - 1), by)
             x == df[n]
             k == Cardinality({i \in 1..Len(head) : ~RowLess(x, head[i], by)})
         IN  SubSeq(head, 1, k) \o <<x>> \o SubSeq(head, k + 1, Len(head))

-----------------------------------------------------------------------------
(* main.py: the CSV files *)

NoFile == [exists |-> FALSE, rows |-> <<>>]

to_csv(df) == [exists |-> TRUE, rows |-> df]

\* pd.read_csv(path, dtype=str).fillna(""): NA spellings come back as "".
read_csv(file) ==
    [i \in 1..Len(file.rows) |->
        [k \in DOMAIN file.rows[i] |->
            IF file.rows[i][k] \in NA_VALUES THEN "" ELSE file.rows[i][k]]]

read_master_df(file) == IF file.exists THEN read_csv(file) ELSE <<>>

-----------------------------------------------------------------------------
(* main.py: upsert *)

\* key_cols that never takes the date into the key
key_cols_ticker_only(row) == {"ticker"}

key_cols(row) ==
    IF row.pdufa_date # "" THEN {"ticker", "pdufa_date"} ELSE {"ticker"}

\* not str(cell).strip(): no cell of the model is made of whitespace only.
is_blank(cell) == cell = ""

upsert_mask(df, row) ==
    {i \in 1..Len(df) : \A k \in key_cols(row) : df[i][k] = row[k]}

\* upsert_fill that takes the incoming record for the matched row
upsert_overwrite(old, row) == row

upsert_fill(old, row) ==
    [k \in DOMAIN old |->
        IF k \in DOMAIN row /\ row[k] # "" /\ is_blank(old[k])
        THEN row[k] ELSE old[k]]

upsert(df, row) ==
    IF df = <<>> THEN Append(df, row)
    ELSE LET idx == upsert_mask(df, row)
         IN  IF idx = {} THEN Append(df, row)
             ELSE LET i == CHOOSE j \in idx : \A l \in idx : j <= l
                  IN  [df EXCEPT ![i] = upsert_fill(df[i], row)]

RECURSIVE upsert_all(_, _)
\* for r in df_resolved[...].to_dict("records"): df_master = upsert(df_master, r)
upsert_all(df, records) ==
    IF records = <<>> THEN df
    ELSE upsert_all(upsert(df, Head(records)), Tail(records))

-----------------------------------------------------------------------------
(* main.py: _merge_blanks *)

RECURSIVE drop_duplicates(_)
\* keep="first" on every column of the frame
drop_duplicates(df) ==
    IF df = <<>> THEN <<>>
    ELSE LET n == Len(df)
             head == drop_duplicates(SubSeq(df, 1, n - 1))
         IN  IF \E i \in 1..Len(head) : head[i] = df[n] THEN head
             ELSE Append(head, df[n])

\* _merge_blanks without its drop_duplicates
_merge_blanks_keep_all(file, new_blanks) ==
    LET nb == [i \in 1..Len(new_blanks) |->
                  [summary |-> new_blanks[i].summary,
                   pdufa_date |-> new_blanks[i].pdufa_date]]
        combined == IF file.exists THEN read_csv(file) \o nb ELSE nb
    IN  to_csv(sort_values(combined, "summary"))

blank_cols(r) == [summary |-> r.summary, pdufa_date |-> r.pdufa_date]

\* The file _merge_blanks leaves, `file` being data/blank.csv before the call.
_merge_blanks(file, new_blanks) ==
    LET nb == [i \in 1..Len(new_blanks) |-> blank_cols(new_blanks[i])]
        combined == IF file.exists THEN read_csv(file) \o nb ELSE nb
    IN  to_csv(sort_values(drop_duplicates(combined), "summary"))

-----------------------------------------------------------------------------
(* main.py: main, from the fetched batch on *)

master_cols(r) == [ticker |-> r.ticker, pdufa_date |-> r.pdufa_date]

IsResolved(r) == r.ticker # ""

IsBlank(r) == r.ticker = ""

df_resolved(batch) ==
    LET s == SelectSeq(batch, IsResolved)
    IN  [i \in 1..Len(s) |-> master_cols(s[i])]

df_blanks(batch) == SelectSeq(batch, IsBlank)

\* master_written without the sort before to_csv
master_written_unsorted(file, records) ==
    to_csv(upsert_all(read_master_df(file), records))

\* main, lines 166-174: the master file main leaves, `file` being the master
\* file before the run and `records` the resolved records in batch order.
master_written(file, records) ==
    to_csv(sort_values(upsert_all(read_master_df(file), records), "ticker"))

\* main, lines 176-178: the overflow file main leaves.
blank_written_by(file, batch) ==
    IF df_blanks(batch) # <<>> THEN _merge_blanks(file, df_blanks(batch)) ELSE file

Orderings(n) ==
    {p \in [1..n -> 1..n] : \A i, j \in 1..n : p[i] = p[j] => i = j}

Permuted(s, p) == [i \in 1..Len(s) |-> s[p[i]]]

Event(t, d, s) == [ticker |-> t, pdufa_date |-> d, summary |-> s]

\* The records the calendars of the model deliver.
Records ==
    {Event("AAA", "", "s1"), Event("AAA", "2026-01-01", "s1"),
     Event("AAA", "9999-12-30", "s1"), Event("AAA", "9999-12-31", "s1"),
     Event("BBB", "2026-01-01", "s1"), Event("NULL", "2026-02-01", "s1"),
     Event("", "2026-01-01", "N/A"), Event("", "", "s1")}

\* fetch_all ends with drop_duplicates on the three columns.
Batches ==
    {b \in UNION {[1..n -> Records] : n \in 0..MaxBatch} :
        \A i, j \in 1..Len(b) : b[i] = b[j] => i = j}

\* main, lines 153-160: df_all = fetch_all(...)
main_fetch(batch) ==
    /\ pc = "start"
    /\ pc' = "fetched"
    /\ df_all' = batch
    /\ UNCHANGED <<MASTER_CSV, BLANK_CSV, blank_written>>
    /\ UNCHANGED fetch_vars

\* main, lines 162-178: split, upsert, sort, write, merge the blanks
main_reconcile ==
    /\ pc = "fetched"
    /\ \E m \in {master_written(MASTER_CSV, df_resolved(df_all))},
          b \in {blank_written_by(BLANK_CSV, df_all)} :
            /\ Len(m.rows) <= MaxRows
            /\ Len(b.rows) <= MaxBlankRows
            /\ MASTER_CSV' = m
            /\ BLANK_CSV' = b
    /\ blank_written' = (df_blanks(df_all) # <<>>)
    /\ pc' = "written"
    /\ UNCHANGED df_all
    /\ UNCHANGED fetch_vars

\* main, lines 180-193: the run ends, its locals are gone
main_exit ==
    /\ pc = "written"
    /\ pc' = "start"
    /\ df_all' = <<>>
    /\ blank_written' = FALSE
    /\ UNCHANGED <<MASTER_CSV, BLANK_CSV>>
    /\ UNCHANGED fetch_vars

Idle == [status |-> "none"]

InitVars ==
    /\ MASTER_CSV = NoFile
    /\ BLANK_CSV = NoFile
    /\ df_all = <<>>
    /\ blank_written = FALSE
    /\ frames = <<>>
    /\ rows = <<>>
    /\ cur = Idle
    /\ fetched = <<>>
    /\ min_date = "None"
    /\ max_date = "None"

Init == pc = "start" /\ InitVars

Next ==
    \/ \E batch \in Batches : main_fetch(batch)
    \/ main_reconcile
    \/ main_exit

Spec == Init /\ [][Next]_vars

-----------------------------------------------------------------------------
(* adapters/fdt_google_ics.py: text.  A summary, a ticker, a company name   *)
(* is a sequence of one-character strings.                                  *)

UpperLetters == {"A", "D", "E", "F", "X"}

LowerLetters == {"a", "d", "e", "f", "x"}

\* \w: letters, digits, underscore
WordChars == UpperLetters \cup LowerLetters \cup {"1", "_"}

\* \s
Whitespace == {" "}

char_lower(c) ==
    CASE c = "A" -> "a" [] c = "D" -> "d" [] c = "E" -> "e"
      [] c = "F" -> "f" [] c = "X" -> "x" [] OTHER -> c

char_upper(c) ==
    CASE c = "a" -> "A" [] c = "d" -> "D" [] c = "e" -> "E"
      [] c = "f" -> "F" [] c = "x" -> "X" [] OTHER -> c

str_lower(t) == [i \in 1..Len(t) |-> char_lower(t[i])]

str_upper(t) == [i \in 1..Len(t) |-> char_upper(t[i])]

\* str.strip(): leading and trailing whitespace removed
str_strip(t) ==
    LET inner == {i \in 1..Len(t) : t[i] \notin Whitespace}
    IN  IF inner = {} THEN <<>>
        ELSE LET lo == CHOOSE i \in inner : \A j \in inner : i <= j
                 hi == CHOOSE i \in inner : \A j \in inner : j <= i
             IN  SubSeq(t, lo, hi)

\* needle in hay
str_contains(hay, needle) ==
    \E i \in 0..(Len(hay) - Len(needle)) :
        SubSeq(hay, i + 1, i + Len(needle)) = needle

STOPWORDS ==
    {<<"P", "D", "U", "F", "A">>, <<"A", "D", "C", "O", "M">>, <<"F", "D", "A">>}

\* \b between positions at and at + 1 of t
word_boundary(t, at) ==
    LET before == at >= 1 /\ at <= Len(t) /\ t[at] \in WordChars
        after == at + 1 <= Len(t) /\ t[at + 1] \in WordChars
    IN  before # after

\* LEADING_TICKER_RE.match(t): group 1, or <<>> for no match.  \s* takes all
\* the leading whitespace; [A-Z]{3,5} is greedy, so 5, then 4, then 3 letters
\* are tried, each needing the \b after it.
LEADING_TICKER_RE(t) ==
    LET lead == Cardinality({k \in 1..Len(t) : \A i \in 1..k : t[i] \in Whitespace})
        letters(n) ==
            /\ lead + n <= Len(t)
            /\ \A i \in (lead + 1)..(lead + n) : t[i] \in UpperLetters
            /\ word_boundary(t, lead + n)
    IN  IF letters(5) THEN SubSeq(t, lead + 1, lead + 5)
        ELSE IF letters(4) THEN SubSeq(t, lead + 1, lead + 4)
        ELSE IF letters(3) THEN SubSeq(t, lead + 1, lead + 3)
        ELSE <<>>

\* _extract_ticker_from_summary without the STOPWORDS test
_extract_ticker_any(summary) ==
    IF summary = <<>> THEN <<>> ELSE str_upper(LEADING_TICKER_RE(summary))

_extract_ticker_from_summary(summary) ==
    IF summary = <<>> THEN <<>>
    ELSE LET m == LEADING_TICKER_RE(summary)
         IN  IF m = <<>> THEN <<>>
             ELSE IF str_upper(m) \in STOPWORDS THEN <<>>
             ELSE str_upper(m)

_company_text(summary) == str_strip(summary)

-----------------------------------------------------------------------------
(* adapters/fdt_google_ics.py: _lookup_ticker_online.  `env` is what the    *)
(* call meets: the credential and the answer of the symbol search.          *)

Returned(v) == [raised |-> FALSE, value |-> v]

Raised == [raised |-> TRUE, value |-> <<>>]

match_score(m, company_lower) ==
    (IF m.region = "United States" THEN 3 ELSE 0)
    + (IF m.currency = "USD" THEN 2 ELSE 0)
    + (IF str_contains(str_lower(str_strip(m.name)), company_lower) THEN 3 ELSE 0)

RECURSIVE best_match(_, _, _)
\* the loop over matches: `best` is <<>> (None) or <<score, sym>>
best_match(matches, company_lower, best) ==
    IF matches = <<>> THEN best
    ELSE LET m == Head(matches)
             sym == str_upper(str_strip(m.symbol))
             score == match_score(m, company_lower)
         IN  IF sym = <<>> THEN best_match(Tail(matches), company_lower, best)
             ELSE IF best = <<>> \/ score > best[1]
                  THEN best_match(Tail(matches), company_lower, <<score, sym>>)
                  ELSE best_match(Tail(matches), company_lower, best)

_lookup_ticker_online(company_text, env) ==
    IF ~env.api_key THEN Returned(<<>>)
    ELSE IF env.response.kind \in {"request_error", "not_json"} THEN Returned(<<>>)
    ELSE IF env.response.kind # "json_object" THEN Raised          \* data.get
    ELSE IF env.response.bestMatches = <<>> THEN Returned(<<>>)
    ELSE IF \E i \in 1..Len(env.response.bestMatches) :
                env.response.bestMatches[i].json # "object"
         THEN Raised                                                \* m.get
    ELSE LET best == best_match(env.response.bestMatches,
                                str_lower(company_text), <<>>)
         IN  IF best = <<>> THEN Returned(<<>>) ELSE Returned(best[2])

-----------------------------------------------------------------------------
(* adapters/fdt_google_ics.py: events_to_df and fetch_all *)

\* dtstart is "None" (no DTSTART), "malformed", or the date it holds in the
\* target zone, written as str(date) writes it.
_to_date_str(dtprop) ==
    IF dtprop = "None" THEN ""
    ELSE IF dtprop = "malformed" THEN ""
    ELSE dtprop

\* no lookup was made
NoEnv == [api_key |-> FALSE, response |-> [kind |-> "none", bestMatches |-> <<>>]]

\* One component of cal.walk(), with the lookup environment of its time.
events_to_df_step(component, env) ==
    /\ pc = "events_to_df"
    /\ Len(frames) + Len(rows) < MaxFetched
    /\ IF component.name # "VEVENT"
       THEN /\ cur' = [status |-> "skipped", component |-> component]
            /\ UNCHANGED <<pc, rows>>
       ELSE LET summary == str_strip(component.summary)
                found == _extract_ticker_from_summary(summary)
                looked == _lookup_ticker_online(_company_text(summary), env)
                ticker == IF found # <<>> THEN found ELSE looked.value
                row == [ticker |-> ticker,
                        pdufa_date |-> _to_date_str(component.dtstart),
                        summary |-> summary]
            IN  IF found = <<>> /\ looked.raised
                THEN \* the exception leaves events_to_df and is caught by
                     \* fetch_all's except: this calendar adds no frame
                     /\ cur' = [status |-> "raised", component |-> component,
                                called |-> TRUE, query |-> _company_text(summary),
                                env |-> env]
                     /\ rows' = <<>>
                     /\ pc' = "fetch_all"
                ELSE /\ cur' = [status |-> "row", component |-> component,
                                called |-> (found = <<>>),
                                query |-> IF found = <<>> THEN _company_text(summary)
                                          ELSE <<>>,
                                env |-> IF found = <<>> THEN env ELSE NoEnv]
                     /\ rows' = Append(rows, row)
                     /\ pc' = pc
    /\ UNCHANGED <<frames, fetched, min_date, max_date>>
    /\ UNCHANGED main_vars

\* cal.walk() is over: the frame is appended to frames
events_to_df_return ==
    /\ pc = "events_to_df"
    /\ frames' = frames \o rows
    /\ rows' = <<>>
    /\ cur' = [status |-> "frame"]
    /\ pc' = "fetch_all"
    /\ UNCHANGED <<fetched, min_date, max_date>>
    /\ UNCHANGED main_vars

\* for u in ics_urls: cal = fetch_ics(u), which raises or returns a calendar
fetch_ics_step(ok) ==
    /\ pc = "fetch_all"
    /\ cur' = [status |-> IF ok THEN "calendar" ELSE "fetch_error"]
    /\ pc' = IF ok THEN "events_to_df" ELSE "fetch_all"
    /\ rows' = <<>>
    /\ UNCHANGED <<frames, fetched, min_date, max_date>>
    /\ UNCHANGED main_vars

\* pd.to_datetime(x, errors="coerce"): NaT instead of an exception
to_datetime_coerce(x) == IF to_datetime(x).err THEN NaT ELSE to_datetime(x)

\* a bound fetch_all uses: given (not None, not "") and parsable
bound_applies(bound) ==
    bound # "None" /\ bound # "" /\ ~to_datetime_coerce(bound).nat

\* date_filter whose max_date mask lacks s.isna()
date_filter_drops_nat(frame, lo, hi) ==
    LET s(r) == to_datetime_coerce(r.pdufa_date)
        kept_lo(r) == bound_applies(lo) => (s(r).nat \/ s(r).t >= to_datetime(lo).t)
        kept_hi(r) == bound_applies(hi) => (~s(r).nat /\ s(r).t <= to_datetime(hi).t)
        keep(r) == kept_lo(r) /\ kept_hi(r)
    IN  SelectSeq(frame, keep)

date_filter(frame, lo, hi) ==
    LET s(r) == to_datetime_coerce(r.pdufa_date)
        kept_lo(r) == bound_applies(lo) => (s(r).nat \/ s(r).t >= to_datetime(lo).t)
        kept_hi(r) == bound_applies(hi) => (s(r).nat \/ s(r).t <= to_datetime(hi).t)
        keep(r) == kept_lo(r) /\ kept_hi(r)
    IN  SelectSeq(frame, keep)

\* the url loop is over: concat, date filter, drop_duplicates, return
fetch_all_return(lo, hi) ==
    /\ pc = "fetch_all"
    /\ min_date' = lo
    /\ max_date' = hi
    /\ fetched' = drop_duplicates(date_filter(frames, lo, hi))
    /\ cur' = [status |-> "returned"]
    /\ pc' = "returned"
    /\ UNCHANGED <<frames, rows>>
    /\ UNCHANGED main_vars

Env(key, kind, matches) ==
    [api_key |-> key, response |-> [kind |-> kind, bestMatches |-> matches]]

Match(sym, name, region, currency) ==
    [json |-> "object", symbol |-> sym, name |-> name, region |-> region,
     currency |-> currency]

\* an element of bestMatches that is no JSON object
NotAnObject ==
    [json |-> "string", symbol |-> <<>>, name |-> <<>>, region |-> "",
     currency |-> ""]

ExUS == Match(<<"E", "X">>, <<"E", "x", " ", "x">>, "United States", "USD")

AdCA == Match(<<" ", "a", "d">>, <<"A", "d">>, "Toronto", "CAD")

NoSymbol == Match(<<>>, <<"x">>, "United States", "USD")

\* What a lookup can meet.
Envs ==
    {Env(FALSE, "json_object", <<ExUS>>),
     Env(TRUE, "request_error", <<>>),
     Env(TRUE, "not_json", <<>>),
     Env(TRUE, "json_array", <<>>),
     Env(TRUE, "json_object", <<>>),
     Env(TRUE, "json_object", <<NotAnObject>>),
     Env(TRUE, "json_object", <<NoSymbol>>),
     Env(TRUE, "json_object", <<ExUS>>),
     Env(TRUE, "json_object", <<AdCA, ExUS>>),
     Env(TRUE, "json_object", <<AdCA, NoSymbol>>)}

Component(name, summary, dtstart) ==
    [name |-> name, summary |-> summary, dtstart |-> dtstart]

\* The components the calendars of the model hold.
Components ==
    {Component("VEVENT", s, d) :
        s \in {<<"A", "D", "F", " ", "x">>, <<" ", "x">>},
        d \in {"None", "malformed", "2026-01-01", "2026-02-01", "9999-12-31"}}
    \cup {Component("VTIMEZONE", <<>>, "None")}

DateBounds == {"None", "", "2026-01-01", "2026-02-01", "garbage"}

InitFetch == pc = "fetch_all" /\ InitVars

NextFetch ==
    \/ \E ok \in BOOLEAN : fetch_ics_step(ok)
    \/ \E component \in Components, env \in Envs : events_to_df_step(component, env)
    \/ events_to_df_return
    \/ \E lo \in DateBounds, hi \in DateBounds : fetch_all_return(lo, hi)

SpecFetch == InitFetch /\ [][NextFetch]_vars

Alphabet == {"A", "D", "F", "x", " "}

\* Every summary of at most MaxLen characters of Alphabet.
Summaries == UNION {[1..n -> Alphabet] : n \in 0..MaxLen}

ExtractEnvs == {Env(FALSE, "json_object", <<ExUS>>), Env(TRUE, "json_object", <<ExUS>>)}

\* A calendar of one VEVENT has been fetched and is walked.
InitExtract == pc = "events_to_df" /\ InitVars

NextExtract ==
    \/ /\ rows = <<>>
       /\ frames = <<>>
       /\ \E summary \in Summaries, env \in ExtractEnvs :
             events_to_df_step(Component("VEVENT", summary, "2026-01-01"), env)
    \/ events_to_df_return

SpecExtract == InitExtract /\ [][NextExtract]_vars

-----------------------------------------------------------------------------
(* Vocabulary of the properties *)

\* The step of main that reconciles the batch df_all into the two files.
Reconciled == pc = "fetched" /\ pc' = "written"

Range(s) == {s[i] : i \in 1..Len(s)}

Count(s, x) == Cardinality({i \in 1..Len(s) : s[i] = x})

NoDuplicateRows(tbl) == \A i, j \in 1..Len(tbl) : tbl[i] = tbl[j] => i = j

IsValidDate(d) == ~to_datetime(d).nat /\ ~to_datetime(d).err

\* Valid dates first and ascending, empty and unparsable dates after them,
\* equal date keys in ascending order of the column `by`.
SortedAsClaimed(tbl, by) ==
    \A i, j \in 1..Len(tbl) :
        i < j =>
            /\ IsValidDate(tbl[j].pdufa_date) =>
                   /\ IsValidDate(tbl[i].pdufa_date)
                   /\ to_datetime(tbl[i].pdufa_date).t
                          <= to_datetime(tbl[j].pdufa_date).t
            /\ _date_key(tbl[i].pdufa_date) = _date_key(tbl[j].pdufa_date) =>
                   ~StrLess(tbl[j][by], tbl[i][by])

\* The key the spec gives a record: (ticker, date), or ticker alone.
KeyOf(r) ==
    IF r.pdufa_date # "" THEN <<r.ticker, r.pdufa_date>> ELSE <<r.ticker>>

KeysPairwiseDifferent(records) ==
    \A i, j \in 1..Len(records) : KeyOf(records[i]) = KeyOf(records[j]) => i = j

\* No empty-date record shares its ticker with another record, and no two
\* records of one ticker have dates of the same sort key.
NoKeyInterference(records) ==
    \A i, j \in 1..Len(records) :
        (i # j /\ records[i].ticker = records[j].ticker) =>
            /\ records[i].pdufa_date # ""
            /\ _date_key(records[i].pdufa_date) # _date_key(records[j].pdufa_date)

Injections(m, n) ==
    {f \in [1..m -> 1..n] : \A i, j \in 1..m : f[i] = f[j] => i = j}

-----------------------------------------------------------------------------
(* Properties *)

\* C1: reconciling the same batch a second time, on the files the first run
\* left, leaves both files exactly as the first run left them.
C1_Idempotent ==
    [][Reconciled =>
        /\ master_written(MASTER_CSV', df_resolved(df_all)) = MASTER_CSV'
        /\ blank_written_by(BLANK_CSV', df_all) = BLANK_CSV']_vars

\* C2: the master file never holds two rows with the same (ticker, date), the
\* empty date included, and an empty-date record adds no row for a ticker the
\* file already holds.
C2_MasterUnique ==
    [][/\ NoDuplicateRows(MASTER_CSV'.rows)
       /\ Reconciled =>
            \A r \in Range(df_resolved(df_all)) :
                (r.pdufa_date = "" /\ \E x \in Range(MASTER_CSV.rows) : x.ticker = r.ticker)
                    => Count(MASTER_CSV'.rows, r) = Count(MASTER_CSV.rows, r)]_vars

C4_OrderInsensitive ==
    [][(Reconciled /\ KeysPairwiseDifferent(df_resolved(df_all))) =>
        \A p \in Orderings(Len(df_resolved(df_all))) :
            master_written(MASTER_CSV, Permuted(df_resolved(df_all), p))
                = MASTER_CSV']_vars

\* C4 amended: with pairwise different keys, no empty-date record sharing its
\* ticker with another record, and no two records of one ticker with dates of
\* the same sort key, the order does not change the master file written.
C4_OrderInsensitiveAmended ==
    [][(/\ Reconciled
        /\ KeysPairwiseDifferent(df_resolved(df_all))
        /\ NoKeyInterference(df_resolved(df_all))) =>
        \A p \in Orderings(Len(df_resolved(df_all))) :
            master_written(MASTER_CSV, Permuted(df_resolved(df_all), p))
                = MASTER_CSV']_vars

C4_Witness ==
    /\ pc = "written"
    /\ df_all = <<Event("BBB", "2026-01-01", "s1"), Event("AAA", "2026-01-01", "s1")>>
    /\ Len(MASTER_CSV.rows) = 3

\* The overflow file holds what was loaded from it and the unresolved records
\* of the batch, once each, sorted.
BlankMerged ==
    LET nb == [i \in 1..Len(df_blanks(df_all)) |-> blank_cols(df_blanks(df_all)[i])]
        old == IF BLANK_CSV.exists THEN read_csv(BLANK_CSV) ELSE <<>>
    IN  /\ BLANK_CSV'.exists
        /\ Range(BLANK_CSV'.rows) = Range(old) \cup Range(nb)
        /\ NoDuplicateRows(BLANK_CSV'.rows)
        /\ SortedAsClaimed(BLANK_CSV'.rows, "summary")

C8_Sorted ==
    /\ SortedAsClaimed(MASTER_CSV.rows, "ticker")
    /\ SortedAsClaimed(BLANK_CSV.rows, "summary")

C8_Witness ==
    /\ pc = "written"
    /\ Len(MASTER_CSV.rows) = 3
    /\ \E i, j, k \in 1..3 :
          /\ IsValidDate(MASTER_CSV.rows[i].pdufa_date)
          /\ to_datetime(MASTER_CSV.rows[j].pdufa_date).err
          /\ MASTER_CSV.rows[k].pdufa_date = ""
    /\ Len(BLANK_CSV.rows) = 2
    /\ BLANK_CSV.rows[2].pdufa_date = ""

\* C10: a run changes no field of a loaded row: the file written holds the
\* loaded rows as they were, plus rows of the batch; a blank date is not filled.
C10_RowsUntouched ==
    [][Reconciled =>
        LET loaded == read_master_df(MASTER_CSV)
            res == df_resolved(df_all)
        IN  \A x \in Range(loaded) \cup Range(MASTER_CSV'.rows) :
                /\ Count(loaded, x) <= Count(MASTER_CSV'.rows, x)
                /\ Count(MASTER_CSV'.rows, x) <= Count(loaded, x) + Count(res, x)]_vars

C10_Witness ==
    /\ pc = "written"
    /\ df_all = <<Event("AAA", "2026-01-01", "s1")>>
    /\ MASTER_CSV.rows = <<[ticker |-> "AAA", pdufa_date |-> "2026-01-01"],
                           [ticker |-> "AAA", pdufa_date |-> ""]>>

-----------------------------------------------------------------------------
(* Properties of the adapter *)

\* events_to_df has just handled a VEVENT.
Normalized == pc = "events_to_df" /\ cur'.status \in {"row", "raised"}

\* The lookup met no credential, a failed request, or an answer that is not
\* the expected object with a list of objects.
LookupFailed(env) ==
    \/ ~env.api_key
    \/ env.response.kind \in {"request_error", "not_json", "json_array"}
    \/ \E i \in 1..Len(env.response.bestMatches) :
          env.response.bestMatches[i].json # "object"

\* C6: a lookup that fails gives the event the empty ticker: the event is
\* emitted, after the rows already emitted for its calendar, and nothing raises.
C6_LookupFailureAbsorbed ==
    [][(Normalized /\ cur'.called /\ LookupFailed(cur'.env)) =>
        /\ cur'.status = "row"
        /\ pc' = "events_to_df"
        /\ rows' = Append(rows,
                [ticker |-> <<>>,
                 pdufa_date |-> _to_date_str(cur'.component.dtstart),
                 summary |-> str_strip(cur'.component.summary)])]_vars

\* t begins, after its leading whitespace, with exactly n uppercase letters
\* that end at a word boundary.
BeginsWithRun(t, n) ==
    \E lead \in 0..Len(t) :
        /\ \A i \in 1..lead : t[i] \in Whitespace
        /\ lead + n <= Len(t)
        /\ \A i \in 1..n : t[lead + i] \in UpperLetters
        /\ (lead + n = Len(t) \/ t[lead + n + 1] \notin WordChars)

RunOf(t, n) ==
    LET lead == CHOOSE l \in 0..Len(t) :
                    /\ \A i \in 1..l : t[i] \in Whitespace
                    /\ l + n <= Len(t)
                    /\ \A i \in 1..n : t[l + i] \in UpperLetters
    IN  SubSeq(t, lead + 1, lead + n)

\* C7: a leading run of 3 to 5 uppercase letters that is no stopword is the
\* ticker, with no lookup; otherwise the lookup is asked with the trimmed
\* summary, and no stopword comes out of the pattern stage.
C7_TwoStage ==
    [][Normalized =>
        LET summary == str_strip(cur'.component.summary)
            hit == {n \in 3..5 : BeginsWithRun(summary, n)
                                  /\ RunOf(summary, n) \notin STOPWORDS}
        IN  IF hit # {}
            THEN /\ cur'.status = "row"
                 /\ ~cur'.called
                 /\ \A n \in hit : rows'[Len(rows')].ticker = RunOf(summary, n)
            ELSE /\ cur'.called
                 /\ cur'.query = summary]_vars

C7_Witness ==
    /\ cur.status = "row"
    /\ cur.component.summary = <<" ", "F", "D", "A", "D", " ">>
    /\ ~cur.called
    /\ rows = <<[ticker |-> <<"F", "D", "A", "D">>, pdufa_date |-> "2026-01-01",
                 summary |-> <<"F", "D", "A", "D">>]>>

\* The date is not one pandas parses: empty, or out of range.
Unparsable(d) == to_datetime(d).nat \/ to_datetime(d).err

BoundGiven(b) == b # "None" /\ b # "" /\ ~Unparsable(b)

StrictlyBefore(d, b) == BoundGiven(b) /\ to_datetime(d).t < to_datetime(b).t

StrictlyAfter(d, b) == BoundGiven(b) /\ to_datetime(d).t > to_datetime(b).t

\* C9: fetch_all keeps a record exactly when its date is empty or unparsable,
\* or neither strictly before the minimum nor strictly after the maximum.
C9_DateFilter ==
    pc = "returned" =>
        /\ Range(fetched) \subseteq Range(frames)
        /\ \A r \in Range(frames) :
              (r \in Range(fetched)) <=>
                  \/ Unparsable(r.pdufa_date)
                  \/ /\ ~StrictlyBefore(r.pdufa_date, min_date)
                     /\ ~StrictlyAfter(r.pdufa_date, max_date)

C9_Witness ==
    /\ pc = "returned"
    /\ BoundGiven(min_date)
    /\ BoundGiven(max_date)
    /\ Len(frames) = 2
    /\ Len(fetched) = 1
    /\ fetched[1].pdufa_date = ""

====
